---- MODULE Spec2Model ----
(***************************************************************************)
(* Order lifecycle of the bookstore backend: createOrder, cancelOrder,     *)
(* updateOrderStatus and getOrderById of controllers/orderController.js    *)
(* over the Order document of models/order.js, the users' carts and the    *)
(* books' stock.  Every handler is split at its awaits: one action per     *)
(* data-store call, so that concurrent requests interleave as they do on   *)
(* the event loop.                                                         *)
(*                                                                         *)
(* Money is counted in thousandths of the currency unit, so that a price   *)
(* with more than two decimals (the schema allows any Number >= 0) makes   *)
(* the toFixed(2) roundings of the model do something.                     *)
(***************************************************************************)
EXTENDS Integers, Sequences, FiniteSets, TLC

\* ---------------------------------------------------------------- bounds
MaxStock == 1      \* largest initial stock of a book
MaxOrders == 2     \* orders that may be persisted
MaxNow == 3        \* requests admitted past their validation in one behaviour
MaxQty == 4        \* largest quantity a cart request asks for
MaxPage == 4       \* largest page asked for
MaxLimit == 3      \* largest page size asked for
MaxTotal == 7      \* largest number of documents counted
NumSlots == 2      \* requests that may be in flight together

\* ------------------------------------------------------ program constants
CentUnit == 10                   \* thousandths of a unit per cent: toFixed(2)
TaxRateNum == 8                  \* taxRate = 0.08 = TaxRateNum / TaxRateDen
TaxRateDen == 100
FreeShippingThreshold == 50000   \* 50 currency units
FlatShippingFee == 199000        \* 199 currency units

Users == {"u1", "u2"}
Books == {"b1", "b2"}
Slots == 1..NumSlots
OrderIds == 1..MaxOrders

\* the stock the books start with
InitStock(b) == IF b = "b1" THEN MaxStock ELSE MaxStock + 1

\* catalog price of a book: 50.00 (the free-shipping threshold) and 9.998
Price(b) == IF b = "b1" THEN 50000 ELSE 9998

\* faulty variant, used to test the properties below: "paid" is let through as a status
validStatusesLoose ==
    {"pending", "confirmed", "processing", "shipped", "delivered", "cancelled",
     "paid"}

validStatuses ==
    {"pending", "confirmed", "processing", "shipped", "delivered", "cancelled"}
\* the inputs the requests are issued with
RequestedStatuses == {"shipped", "delivered", "cancelled", "paid"}
\* faulty variant, used to test the properties below: the gateway's name is accepted as a method
paymentMethodEnumWithGateway ==
    {"credit_card", "debit_card", "paypal", "cash_on_delivery", "esewa"}

paymentMethodEnum == {"credit_card", "debit_card", "paypal", "cash_on_delivery"}
RequestedMethods == {"credit_card"}
\* who puts which book in their cart, and who calls updateOrderStatus
Shoppers == {<<"u1", "b1">>, <<"u1", "b2">>, <<"u2", "b1">>}
StatusCallers == {"u2"}
Readers == {"u2"}

\* a Date field is unset, or holds the number of times it has been stamped:
\* new Date() is a value the field has not held before
NoDate == 0
NewDate(old) == old + 1

VARIABLES
    stock,      \* Book.stock of every book
    stock0,     \* the stock the books started with (never written)
    catalog,    \* the books collection: per book its price and whether it exists
    carts,      \* userId -> [items: Seq(cart line), total]
    orders,     \* the orders collection, indexed by _id
    req,        \* slot -> the request running in it, with its locals
    now,        \* requests admitted so far
    cancels     \* per order _id: cancelOrder requests that saved it as cancelled

vars == <<stock, stock0, catalog, carts, orders, req, now, cancels>>

\* ------------------------------------------------------------- arithmetic
RECURSIVE SumSeq(_)
SumSeq(s) == IF s = <<>> THEN 0 ELSE Head(s) + SumSeq(Tail(s))

\* parseFloat((num / den).toFixed(2)): the multiple of a cent nearest to the
\* non-negative ratio num / den.  Every price of the model is even, so no
\* sum is half a cent and the tie rule of toFixed never applies.
ToFixed2(num, den) ==
    ((2 * num + den * CentUnit) \div (2 * den * CentUnit)) * CentUnit

\* ------------------------------------------------- models/order.js methods
calculateSubtotal(items) ==
    SumSeq([i \in 1..Len(items) |-> items[i].subtotal])

\* faulty variant, used to test the properties below: the tax is cut off after the cents
calculateTaxTruncated(subtotal) ==
    ((subtotal * TaxRateNum) \div (TaxRateDen * CentUnit)) * CentUnit

calculateTax(subtotal) == ToFixed2(subtotal * TaxRateNum, TaxRateDen)

\* faulty variant, used to test the properties below: free shipping only above the threshold
calculateShippingCostAbove(subtotal) ==
    IF subtotal > FreeShippingThreshold THEN 0 ELSE FlatShippingFee

calculateShippingCost(subtotal) ==
    IF subtotal >= FreeShippingThreshold THEN 0 ELSE FlatShippingFee

\* faulty variant, used to test the properties below: the sum is stored without toFixed(2)
calculateTotalUnrounded(subtotal, tax, shippingCost) ==
    subtotal + tax + shippingCost

calculateTotal(subtotal, tax, shippingCost) ==
    ToFixed2(subtotal + tax + shippingCost, 1)

\* calculateOrderCosts on a document: subtotal -> tax -> shipping -> total
calculateOrderCosts(doc) ==
    LET sub == calculateSubtotal(doc.items)
        tx == calculateTax(sub)
        sh == calculateShippingCost(sub)
    IN [doc EXCEPT !.subtotal = sub, !.tax = tx, !.shippingCost = sh,
                   !.total = calculateTotal(sub, tx, sh)]

\* faulty variant, used to test the properties below: the hook recomputes on every save
preSaveAlways(doc) == calculateOrderCosts(doc)

\* orderSchema.pre('save')
preSave(doc) ==
    IF Len(doc.items) > 0 /\ doc.subtotal = 0
    THEN calculateOrderCosts(doc) ELSE doc

canBeCancelled(doc) == doc.orderStatus \notin {"delivered", "cancelled"}

\* refundWindow = 30 * 24 * 60 * 60 * 1000 ms; the times of the model are
\* in minutes
RefundWindow == 30 * 24 * 60

\* faulty variant, used to test the properties below: the payment is not looked at
canBeRefundedUnpaid(doc, t) ==
    /\ doc.orderStatus = "delivered"
    /\ t - doc.createdAt <= RefundWindow

\* faulty variant, used to test the properties below: the thirtieth day is already too late
canBeRefundedBefore(doc, t) ==
    /\ doc.orderStatus = "delivered"
    /\ doc.paymentStatus = "completed"
    /\ t - doc.createdAt < RefundWindow

\* canBeRefunded when Date.now() returns t
canBeRefunded(doc, t) ==
    /\ doc.orderStatus = "delivered"
    /\ doc.paymentStatus = "completed"
    /\ t - doc.createdAt <= RefundWindow

\* --------------------------------------------- the controller's conditions
\* faulty variant, used to test the properties below: the check asks only whether the book is in stock at all
InsufficientStockNone(bookStock, item) == bookStock < 1

\* createOrder: book.stock < item.quantity
InsufficientStock(bookStock, item) == bookStock < item.quantity

\* faulty variant, used to test the properties below: the conditional decrement (only when enough stock is left)
StockAfterOrderGuarded(bookStock, item) ==
    IF bookStock >= item.quantity THEN bookStock - item.quantity ELSE bookStock

\* faulty variant, used to test the properties below: one copy is taken off per line
StockAfterOrderOne(bookStock, item) == bookStock - 1

\* createOrder: $inc: { stock: -item.quantity }
StockAfterOrder(bookStock, item) == bookStock - item.quantity

\* faulty variant, used to test the properties below: one copy is given back per line
StockAfterCancelOne(bookStock, item) == bookStock + 1

\* faulty variant, used to test the properties below: the quantity is taken off again instead of given back
StockAfterCancelDebit(bookStock, item) == bookStock - item.quantity

\* cancelOrder: $inc: { stock: item.quantity }
StockAfterCancel(bookStock, item) == bookStock + item.quantity

\* faulty variant, used to test the properties below: only a delivered order is refused
CannotCancelDelivered(doc) == doc.orderStatus = "delivered"

\* cancelOrder: ['delivered', 'cancelled'].includes(order.orderStatus)
CannotCancel(doc) == doc.orderStatus \in {"delivered", "cancelled"}

\* -------------------------------------------------------------- documents
NoDoc ==
    [userId |-> "none", orderNumber |-> 0, items |-> <<>>,
     paymentMethod |-> "none",
     paymentStatus |-> "none", orderStatus |-> "none",
     subtotal |-> 0, tax |-> 0, shippingCost |-> 0, total |-> 0,
     cancelledAt |-> NoDate, deliveredAt |-> NoDate, createdAt |-> NoDate]

\* faulty variant, used to test the properties below: every order starts as paid
InitialPaymentStatusPaid(pm) == "completed"

\* createOrder: paymentMethod === 'cash_on_delivery' ? 'pending' : 'completed'
InitialPaymentStatus(pm) ==
    IF pm = "cash_on_delivery" THEN "pending" ELSE "completed"

\* faulty variant, used to test the properties below: the lines take the book's price of the moment
NewOrderLivePrice(u, cartItems, pm) ==
    [userId |-> u, orderNumber |-> 0,
     items |-> [i \in 1..Len(cartItems) |->
                  [bookId |-> cartItems[i].bookId,
                   quantity |-> cartItems[i].quantity,
                   price |-> catalog[cartItems[i].bookId].price,
                   subtotal |-> catalog[cartItems[i].bookId].price
                                  * cartItems[i].quantity]],
     paymentMethod |-> pm,
     paymentStatus |-> InitialPaymentStatus(pm),
     orderStatus |-> "confirmed",
     subtotal |-> 0, tax |-> 0, shippingCost |-> 0, total |-> 0,
     cancelledAt |-> NoDate, deliveredAt |-> NoDate, createdAt |-> NoDate]

\* new Order({...}) of createOrder: schema defaults, then the given fields
NewOrder(u, cartItems, pm) ==
    [userId |-> u, orderNumber |-> 0,
     items |-> [i \in 1..Len(cartItems) |->
                  [bookId |-> cartItems[i].bookId,
                   quantity |-> cartItems[i].quantity,
                   price |-> cartItems[i].price,
                   subtotal |-> cartItems[i].price * cartItems[i].quantity]],
     paymentMethod |-> pm,
     paymentStatus |-> InitialPaymentStatus(pm),
     orderStatus |-> "confirmed",
     subtotal |-> 0, tax |-> 0, shippingCost |-> 0, total |-> 0,
     cancelledAt |-> NoDate, deliveredAt |-> NoDate, createdAt |-> NoDate]

\* Cart.findOne({ userId }) answers null until the user's cart is created
NoCart == [items |-> <<>>, total |-> 0, exists |-> FALSE]
EmptyCart == [items |-> <<>>, total |-> 0, exists |-> TRUE]

\* a request slot: the running handler, where it is suspended, its inputs
\* (addr = the body has a shippingAddress, arg = paymentMethod or status,
\* at = the Date.now() it read, available = the number an error reports),
\* its locals (cart = the lines of the cart read at the start, pop = per
\* line whether populate('items.bookId') found the book, doc = the order
\* document in memory, idx = position of a for-of loop), the number of
\* data-store writes it has made and the response code once it has answered
Idle ==
    [op |-> "none", pc |-> "idle", userId |-> "none", orderId |-> 0,
     addr |-> FALSE, arg |-> "none", cart |-> <<>>, pop |-> <<>>, idx |-> 0,
     doc |-> NoDoc, writes |-> 0, at |-> 0, available |-> 0, resp |-> "none"]

\* a response is on its way out: the handler has returned, its slot is not
\* yet free
Responding == \E s \in Slots : req[s].pc = "done"

\* a new request takes the first free slot (slots are interchangeable)
Free(r) ==
    /\ ~Responding
    /\ req[r].pc = "idle"
    /\ \A s \in Slots : s < r => req[s].pc # "idle"

\* res.status(..).json(..): the handler returns
Respond(r, code) ==
    [req[r] EXCEPT !.pc = "done", !.resp = code,
                   !.doc = IF code \in {"CREATED", "OK"} THEN @ ELSE NoDoc]

\* faulty variant, used to test the properties below: the error is swallowed and 201 is sent
catchErrorAsCreated(r) == Respond(r, "CREATED")

\* the catch block of createOrder: log, answer INTERNAL_SERVER_ERROR
catchError(r) == Respond(r, "INTERNAL_SERVER_ERROR")

Exists(oid) == oid \in 1..Len(orders)

\* faulty variant, used to test the properties below: the query by _id alone
findOneById(oid, u) == Exists(oid)

\* Order.findOne({ _id: orderId, userId }) finds a document
findOne(oid, u) == Exists(oid) /\ orders[oid].userId = u

\* at most MaxNow requests go on to the data store (one that is rejected
\* at once is not counted and is always possible)
Admit(rejected) ==
    /\ ~rejected => now < MaxNow
    /\ now' = IF rejected THEN now ELSE now + 1

CartQty(u, b) ==
    SumSeq([i \in 1..Len(carts[u].items) |->
              IF carts[u].items[i].bookId = b
              THEN carts[u].items[i].quantity ELSE 0])

\* ------------------------------------------------------------------- Init
Init ==
    /\ stock = [b \in Books |-> InitStock(b)]
    /\ stock0 = stock
    /\ catalog = [b \in Books |-> [price |-> Price(b), exists |-> TRUE]]
    /\ carts = [u \in Users |-> NoCart]
    /\ orders = <<>>
    /\ req = [r \in Slots |-> Idle]
    /\ now = 0
    /\ cancels = [o \in OrderIds |-> 0]

\* ------------------------------------------------------------ cart engine
CartTotal(items) ==
    SumSeq([i \in 1..Len(items) |-> items[i].quantity * items[i].price])

\* addItem: existing-line quantity + requested must not exceed the stock;
\* an existing line keeps its captured price, a new line captures the
\* book's current price; the total is recomputed
AddItem(u, b, q) ==
    /\ ~Responding
    /\ q >= 1
    /\ catalog[b].exists
    /\ CartQty(u, b) + q <= stock[b]
    /\ LET old == carts[u].items
           has == \E i \in 1..Len(old) : old[i].bookId = b
           new == IF has
                  THEN [i \in 1..Len(old) |->
                          IF old[i].bookId = b
                          THEN [old[i] EXCEPT !.quantity = @ + q]
                          ELSE old[i]]
                  ELSE Append(old, [bookId |-> b, quantity |-> q,
                                    price |-> catalog[b].price])
       IN carts' = [carts EXCEPT ![u] = [items |-> new,
                                         total |-> CartTotal(new),
                                         exists |-> TRUE]]
    /\ UNCHANGED <<stock, stock0, catalog, orders, req, now, cancels>>

\* ------------------------------------------------------------ createOrder
\* creates that may still persist an order
PendingCreates ==
    Cardinality({s \in Slots : req[s].op = "create"
                               /\ req[s].pc \in {"check", "save"}})

\* !shippingAddress || !paymentMethod
MissingFields(hasAddress, pm) == ~hasAddress \/ pm = "none"

\* faulty variant, used to test the properties below: only a missing cart counts as empty
CartIsEmptyNull(u) == ~carts[u].exists

\* !cart || cart.items.length === 0
CartIsEmpty(u) == ~carts[u].exists \/ Len(carts[u].items) = 0

\* entry, field validation and Cart.findOne(...).populate('items.bookId'):
\* the bookId of a line whose book is gone is populated with null
CreateOrderStart(r, u, hasAddress, pm) ==
    /\ Free(r)
    /\ Admit(MissingFields(hasAddress, pm) \/ CartIsEmpty(u))
    /\ Len(orders) + PendingCreates < MaxOrders
    /\ LET me == [Idle EXCEPT !.op = "create", !.userId = u,
                              !.addr = hasAddress, !.arg = pm]
       IN req' = [req EXCEPT ![r] =
            IF MissingFields(hasAddress, pm)
            THEN [me EXCEPT !.pc = "done", !.resp = "MISSING_FIELDS"]
            ELSE IF CartIsEmpty(u)
            THEN [me EXCEPT !.pc = "done", !.resp = "EMPTY_CART"]
            ELSE [me EXCEPT !.pc = "check", !.cart = carts[u].items,
                    !.pop = [i \in 1..Len(carts[u].items) |->
                               catalog[carts[u].items[i].bookId].exists],
                    !.idx = 1]]
    /\ UNCHANGED <<stock, stock0, catalog, carts, orders, cancels>>

\* one turn of the validation loop: Book.findById(item.bookId._id), which
\* throws into the catch block when item.bookId is null, the !book test and
\* the stock comparison; after the last line the order document is built
\* with the orderNumber num that generateOrderNumber() returns, and its
\* costs are computed
CreateOrderCheckStock(r, num) ==
    /\ ~Responding
    /\ req[r].op = "create" /\ req[r].pc = "check"
    /\ LET me == req[r]
           item == me.cart[me.idx]
       IN req' = [req EXCEPT ![r] =
            IF ~me.pop[me.idx]
            THEN catchError(r)
            ELSE IF ~catalog[item.bookId].exists
            THEN Respond(r, "BOOK_NOT_FOUND")
            ELSE IF InsufficientStock(stock[item.bookId], item)
            THEN Respond(r, "INSUFFICIENT_STOCK")
            ELSE IF me.idx < Len(me.cart)
            THEN [me EXCEPT !.idx = @ + 1]
            ELSE [me EXCEPT !.pc = "save", !.idx = 0,
                    !.doc = calculateOrderCosts(
                                [NewOrder(me.userId, me.cart, me.arg)
                                   EXCEPT !.orderNumber = num])]]
    /\ UNCHANGED <<stock, stock0, catalog, carts, orders, now, cancels>>

\* faulty variant, used to test the properties below: the orderNumber index is not unique
DuplicateKeyNever(doc) == FALSE

\* orderNumber: { unique: true }: the insert is refused (E11000) when a
\* persisted order has the document's orderNumber
DuplicateKey(doc) ==
    \E oid \in 1..Len(orders) : orders[oid].orderNumber = doc.orderNumber

\* timestamps: true: the first save stamps createdAt
Timestamped(doc) == [doc EXCEPT !.createdAt = NewDate(@)]

\* await order.save(): schema validation, the pre-save hook, the insert
CreateOrderSave(r) ==
    /\ ~Responding
    /\ req[r].op = "create" /\ req[r].pc = "save"
    /\ IF /\ req[r].doc.paymentMethod \in paymentMethodEnum
          /\ ~DuplicateKey(req[r].doc)
       THEN /\ orders' = Append(orders, Timestamped(preSave(req[r].doc)))
            /\ req' = [req EXCEPT ![r] =
                 [@ EXCEPT !.pc = "dec", !.idx = 1,
                           !.doc = Timestamped(preSave(@)),
                           !.orderId = Len(orders) + 1, !.writes = @ + 1]]
       ELSE /\ req' = [req EXCEPT ![r] = catchError(r)]
            /\ UNCHANGED orders
    /\ UNCHANGED <<stock, stock0, catalog, carts, now, cancels>>

\* one turn of the stock loop: Book.findByIdAndUpdate($inc: -quantity),
\* which updates nothing when the book is gone
CreateOrderDecStock(r) ==
    /\ ~Responding
    /\ req[r].op = "create" /\ req[r].pc = "dec"
    /\ LET me == req[r]
           item == me.cart[me.idx]
       IN /\ stock' = [stock EXCEPT ![item.bookId] =
                          IF catalog[item.bookId].exists
                          THEN StockAfterOrder(@, item) ELSE @]
          /\ req' = [req EXCEPT ![r] =
               IF me.idx < Len(me.cart)
               THEN [me EXCEPT !.idx = @ + 1, !.writes = @ + 1]
               ELSE [me EXCEPT !.pc = "clear", !.idx = 0, !.writes = @ + 1]]
    /\ UNCHANGED <<stock0, catalog, carts, orders, now, cancels>>

\* cart.items = []; cart.total = 0; await cart.save(); 201
CreateOrderClearCart(r) ==
    /\ ~Responding
    /\ req[r].op = "create" /\ req[r].pc = "clear"
    /\ carts' = [carts EXCEPT ![req[r].userId] = EmptyCart]
    /\ req' = [req EXCEPT ![r] =
         [Respond(r, "CREATED") EXCEPT !.writes = @ + 1]]
    /\ UNCHANGED <<stock, stock0, catalog, orders, now, cancels>>

\* an awaited write of createOrder (order.save, a findByIdAndUpdate or
\* cart.save) rejects: the catch block answers 500 and undoes nothing
CreateOrderFail(r) ==
    /\ ~Responding
    /\ req[r].op = "create" /\ req[r].pc \in {"save", "dec", "clear"}
    /\ req' = [req EXCEPT ![r] = catchError(r)]
    /\ UNCHANGED <<stock, stock0, catalog, carts, orders, now, cancels>>

\* ------------------------------------------------------------ cancelOrder
\* Order.findOne({_id, userId}), the status check, the in-memory update
CancelOrderFind(r, u, oid) ==
    /\ Free(r)
    /\ Admit(~findOne(oid, u) \/ CannotCancel(orders[oid]))
    /\ LET me == [Idle EXCEPT !.op = "cancel", !.userId = u, !.orderId = oid]
       IN req' = [req EXCEPT ![r] =
            IF ~findOne(oid, u)
            THEN [me EXCEPT !.pc = "done", !.resp = "ORDER_NOT_FOUND"]
            ELSE IF CannotCancel(orders[oid])
            THEN [me EXCEPT !.pc = "done", !.resp = "INVALID_ORDER_STATUS"]
            ELSE [me EXCEPT !.pc = "save",
                    !.doc = [orders[oid] EXCEPT !.orderStatus = "cancelled",
                                                !.cancelledAt = NewDate(@)]]]
    /\ UNCHANGED <<stock, stock0, catalog, carts, orders, cancels>>

\* await order.save(): the pre-save hook, then the modified paths are set
CancelOrderSave(r) ==
    /\ ~Responding
    /\ req[r].op = "cancel" /\ req[r].pc = "save"
    /\ LET d == preSave(req[r].doc)
       IN /\ orders' = [orders EXCEPT ![req[r].orderId] =
               [@ EXCEPT !.orderStatus = d.orderStatus,
                         !.cancelledAt = d.cancelledAt,
                         !.subtotal = IF d.subtotal # req[r].doc.subtotal
                                      THEN d.subtotal ELSE @,
                         !.tax = IF d.tax # req[r].doc.tax THEN d.tax ELSE @,
                         !.shippingCost =
                             IF d.shippingCost # req[r].doc.shippingCost
                             THEN d.shippingCost ELSE @,
                         !.total = IF d.total # req[r].doc.total
                                   THEN d.total ELSE @]]
          /\ req' = [req EXCEPT ![r] =
               [@ EXCEPT !.pc = "restore", !.idx = 1, !.doc = d,
                         !.writes = @ + 1]]
    /\ cancels' = [cancels EXCEPT ![req[r].orderId] = @ + 1]
    /\ UNCHANGED <<stock, stock0, catalog, carts, now>>

\* one turn of the restore loop: Book.findByIdAndUpdate($inc: +quantity),
\* which updates nothing when the book is gone
CancelOrderRestore(r) ==
    /\ ~Responding
    /\ req[r].op = "cancel" /\ req[r].pc = "restore"
    /\ LET me == req[r]
           item == me.doc.items[me.idx]
       IN /\ stock' = [stock EXCEPT ![item.bookId] =
                          IF catalog[item.bookId].exists
                          THEN StockAfterCancel(@, item) ELSE @]
          /\ req' = [req EXCEPT ![r] =
               IF me.idx < Len(me.doc.items)
               THEN [me EXCEPT !.idx = @ + 1, !.writes = @ + 1]
               ELSE [Respond(r, "OK") EXCEPT !.writes = @ + 1]]
    /\ UNCHANGED <<stock0, catalog, carts, orders, now, cancels>>

\* ------------------------------------------------------ updateOrderStatus
\* faulty variant, used to test the properties below: deliveredAt is never stamped
StampDeliveredNever(old, st) == old

\* if (status === 'delivered') order.deliveredAt = new Date()
StampDelivered(old, st) == IF st = "delivered" THEN NewDate(old) ELSE old

\* status validation, Order.findById, the in-memory update
UpdateOrderStatusFind(r, u, oid, st) ==
    /\ Free(r)
    /\ Admit(st \notin validStatuses \/ ~Exists(oid))
    /\ LET me == [Idle EXCEPT !.op = "update", !.userId = u, !.orderId = oid,
                              !.arg = st]
       IN req' = [req EXCEPT ![r] =
            IF st \notin validStatuses
            THEN [me EXCEPT !.pc = "done", !.resp = "INVALID_STATUS"]
            ELSE IF ~Exists(oid)
            THEN [me EXCEPT !.pc = "done", !.resp = "ORDER_NOT_FOUND"]
            ELSE [me EXCEPT !.pc = "save",
                    !.doc = [orders[oid] EXCEPT
                               !.orderStatus = st,
                               !.deliveredAt = StampDelivered(@, st)]]]
    /\ UNCHANGED <<stock, stock0, catalog, carts, orders, cancels>>

\* await order.save(); 200
UpdateOrderStatusSave(r) ==
    /\ ~Responding
    /\ req[r].op = "update" /\ req[r].pc = "save"
    /\ LET d == preSave(req[r].doc)
       IN orders' = [orders EXCEPT ![req[r].orderId] =
               [@ EXCEPT !.orderStatus = d.orderStatus,
                         !.deliveredAt = IF req[r].arg = "delivered"
                                         THEN d.deliveredAt ELSE @,
                         !.subtotal = IF d.subtotal # req[r].doc.subtotal
                                      THEN d.subtotal ELSE @,
                         !.tax = IF d.tax # req[r].doc.tax THEN d.tax ELSE @,
                         !.shippingCost =
                             IF d.shippingCost # req[r].doc.shippingCost
                             THEN d.shippingCost ELSE @,
                         !.total = IF d.total # req[r].doc.total
                                   THEN d.total ELSE @]]
    /\ req' = [req EXCEPT ![r] = [Respond(r, "OK") EXCEPT !.writes = @ + 1]]
    /\ UNCHANGED <<stock, stock0, catalog, carts, now, cancels>>

\* ----------------------------------------------------------- getOrderById
GetOrderById(r, u, oid) ==
    /\ Free(r)
    /\ LET me == [Idle EXCEPT !.op = "get", !.pc = "done", !.userId = u,
                              !.orderId = oid]
       IN req' = [req EXCEPT ![r] =
            IF findOne(oid, u)
            THEN [me EXCEPT !.resp = "OK"]
            ELSE [me EXCEPT !.resp = "ORDER_NOT_FOUND"]]
    /\ UNCHANGED <<stock, stock0, catalog, carts, orders, now, cancels>>

\* ------------------------------------------------- updateBook, deleteBook
\* updateBook with body { price: p }: Book.findById, Object.assign, save.
\* The save writes the modified path only, so the handler is one step; for
\* a book that is gone it answers BOOK_NOT_FOUND and changes nothing.
UpdateBook(b, p) ==
    /\ ~Responding
    /\ catalog[b].exists
    /\ catalog[b].price # p
    /\ catalog' = [catalog EXCEPT ![b].price = p]
    /\ UNCHANGED <<stock, stock0, carts, orders, req, now, cancels>>

\* deleteBook: Book.findById, deleteOne; carts and orders are not touched
DeleteBook(b) ==
    /\ ~Responding
    /\ catalog[b].exists
    /\ catalog' = [catalog EXCEPT ![b].exists = FALSE]
    /\ UNCHANGED <<stock, stock0, carts, orders, req, now, cancels>>

\* the response has left: the slot is free again
Return(r) ==
    /\ req[r].pc = "done"
    /\ req' = [req EXCEPT ![r] = Idle]
    /\ UNCHANGED <<stock, stock0, catalog, carts, orders, now, cancels>>

\* generateOrderNumber() returns a number no order and no request in flight
\* holds: the timestamps and random suffixes do not collide
OrderNumbers == 1..(MaxOrders + NumSlots)
UnusedNumber(n) ==
    /\ \A oid \in 1..Len(orders) : orders[oid].orderNumber # n
    /\ \A s \in Slots : req[s].doc.orderNumber # n
FreshNumber ==
    CHOOSE n \in OrderNumbers :
        UnusedNumber(n) /\ \A m \in OrderNumbers : UnusedNumber(m) => n <= m

\* ------------------------------------------------------------------- Next
Next ==
    \/ \E ub \in Shoppers, q \in 1..MaxStock : AddItem(ub[1], ub[2], q)
    \/ \E r \in Slots, u \in Users, a \in BOOLEAN,
          pm \in RequestedMethods \cup {"none"} : CreateOrderStart(r, u, a, pm)
    \/ \E r \in Slots : CreateOrderCheckStock(r, FreshNumber)
    \/ \E r \in Slots : CreateOrderSave(r)
    \/ \E r \in Slots : CreateOrderDecStock(r)
    \/ \E r \in Slots : CreateOrderClearCart(r)
    \/ \E r \in Slots, u \in Users, oid \in OrderIds : CancelOrderFind(r, u, oid)
    \/ \E r \in Slots : CancelOrderSave(r)
    \/ \E r \in Slots : CancelOrderRestore(r)
    \/ \E r \in Slots, u \in StatusCallers, oid \in OrderIds,
          st \in RequestedStatuses : UpdateOrderStatusFind(r, u, oid, st)
    \/ \E r \in Slots : UpdateOrderStatusSave(r)
    \/ \E r \in Slots, u \in Readers, oid \in OrderIds : GetOrderById(r, u, oid)
    \/ \E r \in Slots : Return(r)

Spec == Init /\ [][Next]_vars

\* ------------------------------------------- the catalog changes under way
\* One request at a time, issued with every kind of payment method, while
\* the administrator reprices and deletes books and the data store may
\* reject a write of createOrder.
CatalogMethods == {"credit_card", "cash_on_delivery", "esewa"}
CatalogShoppers == {<<"u1", "b1">>, <<"u1", "b2">>}
CatalogUsers == {"u1"}
Repriced == {<<"b1", 49990>>}
Deleted == {"b2"}
CatalogStatuses == {"delivered"}

CatalogNext ==
    \/ \E ub \in CatalogShoppers, q \in 1..MaxStock : AddItem(ub[1], ub[2], q)
    \/ \E u \in CatalogUsers, a \in BOOLEAN, pm \in CatalogMethods \cup {"none"} :
          CreateOrderStart(1, u, a, pm)
    \/ CreateOrderCheckStock(1, FreshNumber)
    \/ CreateOrderSave(1)
    \/ CreateOrderDecStock(1)
    \/ CreateOrderClearCart(1)
    \/ CreateOrderFail(1)
    \/ \E u \in CatalogUsers, oid \in OrderIds : CancelOrderFind(1, u, oid)
    \/ CancelOrderSave(1)
    \/ CancelOrderRestore(1)
    \/ \E u \in StatusCallers, oid \in OrderIds, st \in CatalogStatuses :
          UpdateOrderStatusFind(1, u, oid, st)
    \/ UpdateOrderStatusSave(1)
    \/ \E bp \in Repriced : UpdateBook(bp[1], bp[2])
    \/ \E b \in Deleted : DeleteBook(b)
    \/ Return(1)

CatalogSpec == Init /\ [][CatalogNext]_vars

\* ------------------------------------------- order numbers that collide
\* Orders are created concurrently while generateOrderNumber() may return a
\* number it has returned before (same millisecond, same random suffix).
CollidingNumbers == 1..2

NumberNext ==
    \/ \E ub \in Shoppers, q \in 1..MaxStock : AddItem(ub[1], ub[2], q)
    \/ \E r \in Slots, u \in Users, pm \in RequestedMethods :
          CreateOrderStart(r, u, TRUE, pm)
    \/ \E r \in Slots, num \in CollidingNumbers : CreateOrderCheckStock(r, num)
    \/ \E r \in Slots : CreateOrderSave(r)
    \/ \E r \in Slots : CreateOrderDecStock(r)
    \/ \E r \in Slots : CreateOrderClearCart(r)
    \/ \E r \in Slots : Return(r)

NumberSpec == Init /\ [][NumberNext]_vars

\* ------------------------------------------------- a cancel that fails
\* an awaited write of cancelOrder (order.save or a findByIdAndUpdate of
\* the restore loop) rejects: the catch block answers 500 and undoes
\* nothing
CancelOrderFail(r) ==
    /\ ~Responding
    /\ req[r].op = "cancel" /\ req[r].pc \in {"save", "restore"}
    /\ req' = [req EXCEPT ![r] = Respond(r, "INTERNAL_SERVER_ERROR")]
    /\ UNCHANGED <<stock, stock0, catalog, carts, orders, now, cancels>>

\* Orders are placed and cancelled one request at a time; any write of a
\* cancel may fail, and the cancel may be sent again.
RetryNext ==
    \/ \E ub \in CatalogShoppers, q \in 1..MaxStock : AddItem(ub[1], ub[2], q)
    \/ \E u \in CatalogUsers, pm \in RequestedMethods :
          CreateOrderStart(1, u, TRUE, pm)
    \/ CreateOrderCheckStock(1, FreshNumber)
    \/ CreateOrderSave(1)
    \/ CreateOrderDecStock(1)
    \/ CreateOrderClearCart(1)
    \/ \E u \in CatalogUsers, oid \in OrderIds : CancelOrderFind(1, u, oid)
    \/ CancelOrderSave(1)
    \/ CancelOrderRestore(1)
    \/ CancelOrderFail(1)
    \/ Return(1)

RetrySpec == Init /\ [][RetryNext]_vars

\* -------------------------------------------------- a save that fails
\* Orders are placed one request at a time with any payment method and an
\* order number that may be taken; order.save() may also reject for
\* another reason, such as a shipping address that lacks a required field.
SaveNext ==
    \/ \E ub \in CatalogShoppers, q \in 1..MaxStock : AddItem(ub[1], ub[2], q)
    \/ \E u \in CatalogUsers, pm \in CatalogMethods :
          CreateOrderStart(1, u, TRUE, pm)
    \/ \E num \in CollidingNumbers : CreateOrderCheckStock(1, num)
    \/ CreateOrderSave(1)
    \/ CreateOrderDecStock(1)
    \/ CreateOrderClearCart(1)
    \/ CreateOrderFail(1)
    \/ Return(1)

SaveSpec == Init /\ [][SaveNext]_vars

\* ------------------------------------------------------ the cart engine
\* One shopper works on a cart: addItem, updateItem, removeItem and clear,
\* each answered in one step, while the price of a book may be edited.
CartUser == "u1"
CartStock(b) == IF b = "b1" THEN 5 ELSE 2
CartPrice(b) == IF b = "b1" THEN 10000 ELSE 15000
CartRepriced == {<<"b1", 12000>>}

CartInit ==
    /\ stock = [b \in Books |-> CartStock(b)]
    /\ stock0 = stock
    /\ catalog = [b \in Books |-> [price |-> CartPrice(b), exists |-> TRUE]]
    /\ carts = [u \in Users |-> NoCart]
    /\ orders = <<>>
    /\ req = [r \in Slots |-> Idle]
    /\ now = 0
    /\ cancels = [o \in OrderIds |-> 0]

HasLine(items, b) == \E i \in 1..Len(items) : items[i].bookId = b

\* the request as it answers: its input, the cart it found, the count it
\* reports
CartRespond(op, u, b, q, code, n) ==
    [Idle EXCEPT !.op = op, !.pc = "done", !.userId = u,
                 !.arg = [bookId |-> b, quantity |-> q],
                 !.cart = carts[u].items, !.available = n, !.resp = code]

\* faulty variant, used to test the properties below: the quantity already in the cart is not counted
ExceedsStockAlone(u, b, q) == q > stock[b]

\* addItem's stock check: existing-line quantity + requested against stock
ExceedsStock(u, b, q) == CartQty(u, b) + q > stock[b]

\* the items after addItem: an existing line keeps its captured price
ItemsAfterAdd(items, b, q) ==
    IF HasLine(items, b)
    THEN [i \in 1..Len(items) |->
            IF items[i].bookId = b
            THEN [items[i] EXCEPT !.quantity = @ + q]
            ELSE items[i]]
    ELSE Append(items, [bookId |-> b, quantity |-> q,
                        price |-> catalog[b].price])

ItemsAfterUpdate(items, b, q) ==
    [i \in 1..Len(items) |->
        IF items[i].bookId = b THEN [items[i] EXCEPT !.quantity = q]
        ELSE items[i]]

ItemsAfterRemove(items, b) ==
    SelectSeq(items, LAMBDA it : it.bookId # b)

\* faulty variant, used to test the properties below: the stored total is kept when lines change
SavedCartKeepTotal(u, items) ==
    [items |-> items, total |-> carts[u].total, exists |-> TRUE]

\* the cart as persisted: the total is recomputed from the lines
SavedCart(u, items) ==
    [items |-> items, total |-> CartTotal(items), exists |-> TRUE]

CartAddItem(r, u, b, q) ==
    /\ Free(r)
    /\ LET answer(code, n) ==
               /\ req' = [req EXCEPT ![r] = CartRespond("addItem", u, b, q, code, n)]
               /\ UNCHANGED carts
       IN IF q < 1 THEN answer("VALIDATION_ERROR", 0)
          ELSE IF ~catalog[b].exists THEN answer("BOOK_NOT_FOUND", 0)
          ELSE IF ExceedsStock(u, b, q)
               THEN answer("INSUFFICIENT_STOCK", stock[b] - CartQty(u, b))
          ELSE /\ carts' = [carts EXCEPT ![u] =
                              SavedCart(u, ItemsAfterAdd(carts[u].items, b, q))]
               /\ req' = [req EXCEPT ![r] = CartRespond("addItem", u, b, q, "OK", 0)]
    /\ UNCHANGED <<stock, stock0, catalog, orders, now, cancels>>

CartUpdateItem(r, u, b, q) ==
    /\ Free(r)
    /\ LET answer(code, n) ==
               /\ req' = [req EXCEPT ![r] = CartRespond("updateItem", u, b, q, code, n)]
               /\ UNCHANGED carts
       IN IF ~HasLine(carts[u].items, b) THEN answer("CART_ITEM_NOT_FOUND", 0)
          ELSE IF q < 1 THEN answer("VALIDATION_ERROR", 0)
          ELSE IF q > stock[b] THEN answer("INSUFFICIENT_STOCK", stock[b])
          ELSE /\ carts' = [carts EXCEPT ![u] =
                              SavedCart(u, ItemsAfterUpdate(carts[u].items, b, q))]
               /\ req' = [req EXCEPT ![r] = CartRespond("updateItem", u, b, q, "OK", 0)]
    /\ UNCHANGED <<stock, stock0, catalog, orders, now, cancels>>

CartRemoveItem(r, u, b) ==
    /\ Free(r)
    /\ IF ~HasLine(carts[u].items, b)
       THEN /\ req' = [req EXCEPT ![r] =
                         CartRespond("removeItem", u, b, 0, "CART_ITEM_NOT_FOUND", 0)]
            /\ UNCHANGED carts
       ELSE /\ carts' = [carts EXCEPT ![u] =
                           SavedCart(u, ItemsAfterRemove(carts[u].items, b))]
            /\ req' = [req EXCEPT ![r] = CartRespond("removeItem", u, b, 0, "OK", 0)]
    /\ UNCHANGED <<stock, stock0, catalog, orders, now, cancels>>

CartClear(r, u) ==
    /\ Free(r)
    /\ carts' = [carts EXCEPT ![u] = SavedCart(u, <<>>)]
    /\ req' = [req EXCEPT ![r] = CartRespond("clear", u, "none", 0, "OK", 0)]
    /\ UNCHANGED <<stock, stock0, catalog, orders, now, cancels>>

CartNext ==
    \/ \E b \in Books, q \in 0..MaxQty : CartAddItem(1, CartUser, b, q)
    \/ \E b \in Books, q \in 0..MaxQty : CartUpdateItem(1, CartUser, b, q)
    \/ \E b \in Books : CartRemoveItem(1, CartUser, b)
    \/ CartClear(1, CartUser)
    \/ \E bp \in CartRepriced : UpdateBook(bp[1], bp[2])
    \/ Return(1)

CartSpec == CartInit /\ [][CartNext]_vars

\* ----------------------------------------------- payment verification
\* Orders are placed one request at a time; the gateway's callback for an
\* order is then verified, any number of times, with the order's total or
\* a tampered amount and with any status the gateway sends.
PaymentMethods == {"credit_card", "cash_on_delivery"}
GatewayStatuses ==
    {"COMPLETE", "PENDING", "AMBIGUOUS", "FAILED", "CANCELLED", "UNKNOWN"}

\* the amounts a callback for order oid carries: the order's total, or one
\* hundredth more
PayloadAmounts(oid) ==
    IF Exists(oid) THEN {orders[oid].total, orders[oid].total + CentUnit}
    ELSE {0}

\* faulty variant, used to test the properties below: only an underpayment is refused
AmountMismatchBelow(amount, doc) == amount < doc.total

\* the payload amount differs from the order's computed total
AmountMismatch(amount, doc) == amount # doc.total

\* faulty variant, used to test the properties below: the confirmation always takes the stock off
AlreadyDecrementedNever(oid) == FALSE

\* the idempotence guard: createOrder takes the stock of every order it
\* persists, in the loop that follows order.save()
AlreadyDecremented(oid) ==
    /\ Exists(oid)
    /\ ~\E r \in Slots :
          req[r].op = "create" /\ req[r].orderId = oid /\ req[r].pc = "dec"

RECURSIVE StockAfterPayment(_, _)
StockAfterPayment(st, items) ==
    IF items = <<>> THEN st
    ELSE StockAfterPayment(
           [st EXCEPT ![Head(items).bookId] = StockAfterOrder(@, Head(items))],
           Tail(items))

\* verify(payload): signature, amount, then the gateway status
VerifyPayment(r, oid, signed, amount, status) ==
    /\ Free(r)
    /\ LET me == [Idle EXCEPT !.op = "verify", !.pc = "done", !.orderId = oid,
                              !.arg = [signed |-> signed, amount |-> amount,
                                       status |-> status],
                              !.doc = IF Exists(oid) THEN orders[oid] ELSE NoDoc]
           answer(code) ==
               /\ req' = [req EXCEPT ![r] = [me EXCEPT !.resp = code]]
               /\ UNCHANGED <<stock, carts, orders>>
       IN IF ~signed THEN answer("SIGNATURE_MISMATCH")
          ELSE IF ~Exists(oid) THEN answer("ORDER_NOT_FOUND")
          ELSE IF AmountMismatch(amount, orders[oid])
               THEN answer("AMOUNT_MISMATCH")
          ELSE IF status = "COMPLETE"
          THEN /\ orders' = [orders EXCEPT ![oid].paymentStatus = "completed"]
               /\ stock' = IF AlreadyDecremented(oid) THEN stock
                           ELSE StockAfterPayment(stock, orders[oid].items)
               /\ carts' = [carts EXCEPT ![orders[oid].userId] = EmptyCart]
               /\ req' = [req EXCEPT ![r] = [me EXCEPT !.resp = "OK"]]
          ELSE IF status \in {"PENDING", "AMBIGUOUS"} THEN answer("PAYMENT_PENDING")
          ELSE IF status \in {"FAILED", "CANCELLED"}
          THEN /\ orders' = [orders EXCEPT ![oid].orderStatus = "failed"]
               /\ req' = [req EXCEPT ![r] = [me EXCEPT !.resp = "PAYMENT_FAILED"]]
               /\ UNCHANGED <<stock, carts>>
          ELSE answer("VERIFICATION_FAILED")
    /\ UNCHANGED <<stock0, catalog, now, cancels>>

PaymentNext ==
    \/ \E ub \in Shoppers, q \in 1..MaxStock : AddItem(ub[1], ub[2], q)
    \/ \E u \in Users, pm \in PaymentMethods : CreateOrderStart(1, u, TRUE, pm)
    \/ CreateOrderCheckStock(1, FreshNumber)
    \/ CreateOrderSave(1)
    \/ CreateOrderDecStock(1)
    \/ CreateOrderClearCart(1)
    \/ \E oid \in OrderIds, signed \in BOOLEAN, status \in GatewayStatuses :
          \E amount \in PayloadAmounts(oid) :
             VerifyPayment(1, oid, signed, amount, status)
    \/ Return(1)

PaymentSpec == Init /\ [][PaymentNext]_vars

\* -------------------------------------------------- refund eligibility
\* canBeRefunded is evaluated on a document of any status, payment status
\* and age.
paymentStatusEnum == {"pending", "completed", "failed", "refunded"}
RefundCreated == {1, 1000}
RefundAges == {0, RefundWindow - 1, RefundWindow, RefundWindow + 1}

RefundInit ==
    /\ stock = [b \in Books |-> InitStock(b)]
    /\ stock0 = stock
    /\ catalog = [b \in Books |-> [price |-> Price(b), exists |-> TRUE]]
    /\ carts = [u \in Users |-> NoCart]
    /\ orders = <<>>
    /\ now = 0
    /\ cancels = [o \in OrderIds |-> 0]
    /\ \E st \in validStatuses, ps \in paymentStatusEnum, c \in RefundCreated :
          req = [r \in Slots |->
                   IF r = 1
                   THEN [Idle EXCEPT !.op = "refund", !.pc = "new",
                           !.doc = [NoDoc EXCEPT !.orderStatus = st,
                                                 !.paymentStatus = ps,
                                                 !.createdAt = c]]
                   ELSE Idle]

\* order.canBeRefunded() at time t
OrderCanBeRefunded(r, t) ==
    /\ req[r].op = "refund" /\ req[r].pc = "new"
    /\ req' = [req EXCEPT ![r] =
         [@ EXCEPT !.pc = "evaluated", !.at = t,
                   !.resp = IF canBeRefunded(req[r].doc, t)
                            THEN "true" ELSE "false"]]
    /\ UNCHANGED <<stock, stock0, catalog, carts, orders, now, cancels>>

RefundNext ==
    \E age \in RefundAges : OrderCanBeRefunded(1, req[1].doc.createdAt + age)

RefundSpec == RefundInit /\ [][RefundNext]_vars

\* ------------------------------------------------- pagination metadata
\* faulty variant, used to test the properties below: the last, partly filled page is not counted
getPaginationMetadataFloor(page, limit, total) ==
    [currentPage |-> page,
     totalPages |-> total \div limit,
     totalItems |-> total,
     itemsPerPage |-> limit,
     hasNextPage |-> page * limit < total,
     hasPreviousPage |-> page > 1]

\* getPaginationMetadata; Math.ceil(total / limit) for limit >= 1, total >= 0
getPaginationMetadata(page, limit, total) ==
    [currentPage |-> page,
     totalPages |-> (total + limit - 1) \div limit,
     totalItems |-> total,
     itemsPerPage |-> limit,
     hasNextPage |-> page * limit < total,
     hasPreviousPage |-> page > 1]

NoMeta ==
    [currentPage |-> 0, totalPages |-> 0, totalItems |-> 0, itemsPerPage |-> 0,
     hasNextPage |-> FALSE, hasPreviousPage |-> FALSE]

PageInit ==
    /\ stock = [b \in Books |-> InitStock(b)]
    /\ stock0 = stock
    /\ catalog = [b \in Books |-> [price |-> Price(b), exists |-> TRUE]]
    /\ carts = [u \in Users |-> NoCart]
    /\ orders = <<>>
    /\ now = 0
    /\ cancels = [o \in OrderIds |-> 0]
    /\ \E p \in 1..MaxPage, l \in 1..MaxLimit, t \in 0..MaxTotal :
          req = [r \in Slots |->
                   [op |-> "page", pc |-> IF r = 1 THEN "new" ELSE "idle",
                    page |-> p, limit |-> l, total |-> t, meta |-> NoMeta]]

GetPaginationMetadata(r) ==
    /\ req[r].op = "page" /\ req[r].pc = "new"
    /\ req' = [req EXCEPT ![r] =
         [@ EXCEPT !.pc = "answered",
                   !.meta = getPaginationMetadata(req[r].page, req[r].limit,
                                                   req[r].total)]]
    /\ UNCHANGED <<stock, stock0, catalog, carts, orders, now, cancels>>

PageNext == GetPaginationMetadata(1)

PageSpec == PageInit /\ [][PageNext]_vars

\* ------------------------------------------------ the cost methods alone
\* An Order document is built in memory from a list of lines, as createOrder
\* builds it, and calculateOrderCosts and the pre-save hook are applied to
\* it, in any order and more than once.
CostPrices == {0, 9998, 24996, 49990, 50000, 50010}
CostLines(b) ==
    {[bookId |-> b, quantity |-> q, price |-> p] :
        q \in 1..(MaxStock + 1), p \in CostPrices}
CostCarts ==
    {<<>>} \cup {<<l>> : l \in CostLines("b1")}
           \cup {<<l, m>> : l \in CostLines("b1"), m \in CostLines("b2")}

CostInit ==
    /\ stock = [b \in Books |-> InitStock(b)]
    /\ stock0 = stock
    /\ catalog = [b \in Books |-> [price |-> Price(b), exists |-> TRUE]]
    /\ carts = [u \in Users |-> NoCart]
    /\ orders = <<>>
    /\ now = 0
    /\ cancels = [o \in OrderIds |-> 0]
    /\ \E c \in CostCarts :
          req = [r \in Slots |->
                   IF r = 1
                   THEN [Idle EXCEPT !.op = "costs", !.pc = "new", !.cart = c,
                                     !.doc = NewOrder("u1", c, "credit_card")]
                   ELSE Idle]

\* order.calculateOrderCosts()
OrderCalculateOrderCosts(r) ==
    /\ req[r].op = "costs" /\ req[r].pc \in {"new", "costed"}
    /\ req' = [req EXCEPT ![r] =
         [@ EXCEPT !.doc = calculateOrderCosts(@),
                   !.pc = IF @ = "new" THEN "costed" ELSE "recosted"]]
    /\ UNCHANGED <<stock, stock0, catalog, carts, orders, now, cancels>>

\* the pre-save hook runs on the document
OrderPreSave(r) ==
    /\ req[r].op = "costs" /\ req[r].pc \in {"new", "costed", "recosted"}
    /\ req' = [req EXCEPT ![r] =
         [@ EXCEPT !.doc = preSave(@),
                   !.pc = IF @ = "new" THEN "hooked" ELSE "saved"]]
    /\ UNCHANGED <<stock, stock0, catalog, carts, orders, now, cancels>>

CostNext ==
    \/ OrderCalculateOrderCosts(1)
    \/ OrderPreSave(1)

CostSpec == CostInit /\ [][CostNext]_vars

TypeOK ==
    /\ stock \in [Books -> Int]
    /\ catalog \in [Books -> [price : Nat, exists : BOOLEAN]]
    /\ now \in 0..MaxNow
    /\ Len(orders) <= MaxOrders

\* ===================================================================== claims
Quiet == \A r \in Slots : req[r].pc \in {"idle", "done"}
OthersIdle(r) == \A s \in Slots \ {r} : req[s].pc = "idle"
Stepped(r) == req'[r] # req[r]

QtyOf(items, b) ==
    SumSeq([i \in 1..Len(items) |->
              IF items[i].bookId = b THEN items[i].quantity ELSE 0])

\* what the persisted orders hold of book b: every order counts once when
\* created and is given back once per cancelOrder that saved it
NetOrdered(b) ==
    SumSeq([oid \in 1..Len(orders) |->
              QtyOf(orders[oid].items, b) * (1 - cancels[oid])])

\* C1: every persisted order has total = round(subtotal + tax + shippingCost,
\* 2 decimals) and subtotal = the sum of its items' subtotals, whatever
\* cancelOrder and updateOrderStatus did to it since.
C1_OrderTotals ==
    \A oid \in 1..Len(orders) :
        LET o == orders[oid]
        IN /\ o.total = ToFixed2(o.subtotal + o.tax + o.shippingCost, 1)
           /\ o.subtotal = SumSeq([i \in 1..Len(o.items) |-> o.items[i].subtotal])
           /\ o.total >= 0

\* an order that was cancelled and then given another status, whose sum is
\* not a whole number of cents and carries the flat fee
C1_Witness ==
    \E oid \in 1..Len(orders) :
        /\ cancels[oid] > 0
        /\ orders[oid].orderStatus = "shipped"
        /\ orders[oid].shippingCost = FlatShippingFee
        /\ (orders[oid].subtotal + orders[oid].tax) % CentUnit # 0

C3_InsufficientStockAborts ==
    [][\A r \in Slots :
        (req[r].op = "create" /\ req[r].pc = "check" /\ Stepped(r)) =>
            LET item == req[r].cart[req[r].idx]
            IN IF stock[item.bookId] < item.quantity
               THEN /\ req'[r].pc = "done"
                    /\ req'[r].resp = "INSUFFICIENT_STOCK"
                    /\ req'[r].writes = 0
                    /\ UNCHANGED <<stock, orders, carts>>
               ELSE req'[r].pc \in {"check", "save"}]_vars

\* the second line of a cart is rejected after the first one passed
C3_Witness ==
    \E r \in Slots :
        /\ req[r].pc = "done" /\ req[r].resp = "INSUFFICIENT_STOCK"
        /\ req[r].idx = 2
        /\ stock[req[r].cart[1].bookId] >= req[r].cart[1].quantity
        /\ carts[req[r].userId].items = req[r].cart

\* C4: no book's stock is ever negative.
C4_StockNeverNegative == \A b \in Books : stock[b] >= 0

\* the quantity of book b that a createOrder in flight has checked against
\* the stock and not yet taken off it
Pending(r, b) ==
    IF req[r].op # "create" \/ req[r].pc \notin {"check", "save", "dec"}
    THEN 0
    ELSE SumSeq([i \in 1..Len(req[r].cart) |->
           IF /\ req[r].cart[i].bookId = b
              /\ \/ req[r].pc = "save"
                 \/ req[r].pc = "check" /\ i < req[r].idx
                 \/ req[r].pc = "dec" /\ i >= req[r].idx
           THEN req[r].cart[i].quantity ELSE 0])

\* C5: a line passes the stock check on the book's stock of that moment
\* alone, also while another createOrder has passed its check for the same
\* book and not yet decremented; and the decrement takes the full quantity
\* off without looking at the stock again.
C5_CheckThenDebit ==
    [][\A r \in Slots :
        (req[r].op = "create" /\ Stepped(r)) =>
            /\ req[r].pc = "check" =>
                 LET item == req[r].cart[req[r].idx]
                 IN (/\ stock[item.bookId] >= item.quantity
                     /\ \E s \in Slots \ {r} : Pending(s, item.bookId) > 0)
                    => req'[r].pc \in {"check", "save"}
            /\ req[r].pc = "dec" =>
                 LET item == req[r].cart[req[r].idx]
                 IN stock'[item.bookId] = stock[item.bookId] - item.quantity]_vars

\* two createOrder requests have both passed the check for the same book,
\* neither has decremented it, and together they take more than there is
C5_Witness ==
    \E r \in Slots, s \in Slots, b \in Books :
        /\ r # s
        /\ Pending(r, b) > 0 /\ Pending(s, b) > 0
        /\ Pending(r, b) <= stock[b] /\ Pending(s, b) <= stock[b]
        /\ Pending(r, b) + Pending(s, b) > stock[b]

\* C6: when the only order ever created has been cancelled by exactly one
\* cancelOrder and nothing is in flight, every book's stock is what it was
\* before the order was created.
C6_CreateCancelRestores ==
    (Quiet /\ Len(orders) = 1 /\ cancels[1] = 1) =>
        \A b \in Books : stock[b] = stock0[b]

\* a cancelled two-line order with a quantity of 2, stock back at the start
C6_Witness ==
    /\ Quiet /\ Len(orders) = 1 /\ cancels[1] = 1
    /\ orders[1].orderStatus = "cancelled"
    /\ Len(orders[1].items) = 2
    /\ \E i \in 1..2 : orders[1].items[i].quantity = 2
    /\ \A b \in Books : stock[b] = stock0[b] /\ stock0[b] > 0

\* the step in which slot r takes up a request of operation op
Starts(r, op) == req[r].pc = "idle" /\ req'[r].pc # "idle" /\ req'[r].op = op

\* C7: cancelOrder by the owner of a delivered or cancelled order answers
\* INVALID_ORDER_STATUS at once: it writes nothing, and orders (orderStatus,
\* cancelledAt), stock and carts are unchanged.
C7_CancelTerminalRejected ==
    [][\A r \in Slots :
        (/\ Starts(r, "cancel")
         /\ Exists(req'[r].orderId)
         /\ orders[req'[r].orderId].userId = req'[r].userId
         /\ orders[req'[r].orderId].orderStatus \in {"delivered", "cancelled"})
        => /\ req'[r].pc = "done"
           /\ req'[r].resp = "INVALID_ORDER_STATUS"
           /\ req'[r].writes = 0
           /\ ~canBeCancelled(orders[req'[r].orderId])
           /\ UNCHANGED <<orders, stock, carts, cancels>>]_vars

\* a second cancel of an order that one cancelOrder has cancelled
C7_Witness ==
    \E r \in Slots :
        /\ req[r].pc = "done" /\ req[r].op = "cancel"
        /\ req[r].resp = "INVALID_ORDER_STATUS"
        /\ cancels[req[r].orderId] = 1
        /\ orders[req[r].orderId].orderStatus = "cancelled"
        /\ \A b \in Books : stock[b] = stock0[b]

\* C8: cancelOrder by the owner of a pending, confirmed, processing or
\* shipped order goes through: its save sets orderStatus = cancelled and
\* cancelledAt and nothing else of the order, and then each line's book gets
\* exactly the line's quantity back, one line per step, before the 200.
C8_CancelRestoresStock ==
    [][\A r \in Slots :
        /\ \A st \in {"pending", "confirmed", "processing", "shipped"} :
               ~CannotCancel([NoDoc EXCEPT !.orderStatus = st])
        /\ (/\ Starts(r, "cancel")
            /\ Exists(req'[r].orderId)
            /\ orders[req'[r].orderId].userId = req'[r].userId
            /\ orders[req'[r].orderId].orderStatus \in
                   {"pending", "confirmed", "processing", "shipped"})
           => req'[r].pc = "save"
        /\ (req[r].op = "cancel" /\ req[r].pc = "save" /\ Stepped(r))
           => /\ orders' = [orders EXCEPT ![req[r].orderId] =
                     [@ EXCEPT !.orderStatus = "cancelled",
                               !.cancelledAt = orders'[req[r].orderId].cancelledAt]]
              /\ orders'[req[r].orderId].cancelledAt # NoDate
              /\ req'[r].pc = "restore" /\ req'[r].idx = 1
              /\ UNCHANGED stock
        /\ (req[r].op = "cancel" /\ req[r].pc = "restore" /\ Stepped(r))
           => LET items == orders[req[r].orderId].items
                  item == items[req[r].idx]
              IN /\ stock' = [stock EXCEPT ![item.bookId] = @ + item.quantity]
                 /\ UNCHANGED orders
                 /\ IF req[r].idx < Len(items)
                    THEN req'[r].pc = "restore" /\ req'[r].idx = req[r].idx + 1
                    ELSE req'[r].pc = "done" /\ req'[r].resp = "OK"]_vars

\* a 200 for the cancel of a two-line order with a quantity of 2, after
\* which the stock is back where it started
C8_Witness ==
    \E r \in Slots :
        /\ req[r].pc = "done" /\ req[r].op = "cancel" /\ req[r].resp = "OK"
        /\ req[r].doc.orderStatus = "cancelled"
        /\ req[r].doc.cancelledAt # NoDate
        /\ Len(req[r].doc.items) = 2
        /\ \E i \in 1..2 : req[r].doc.items[i].quantity = 2
        /\ OthersIdle(r)
        /\ \A b \in Books : stock[b] = stock0[b]

\* position of a status on the path pending -> ... -> delivered
Rank(st) ==
    CASE st = "pending" -> 0 [] st = "confirmed" -> 1 [] st = "processing" -> 2
      [] st = "shipped" -> 3 [] st = "delivered" -> 4 [] OTHER -> 5

\* a change of orderStatus the state machine allows
Forward(old, new) ==
    \/ new = old
    \/ old \notin {"delivered", "cancelled"} /\ new = "cancelled"
    \/ old # "cancelled" /\ new # "cancelled" /\ Rank(new) > Rank(old)

\* C9: no step moves a persisted order's orderStatus backwards or out of
\* delivered or cancelled.
C9_StatusOnlyForward ==
    [][\A oid \in 1..Len(orders) :
        Forward(orders[oid].orderStatus, orders'[oid].orderStatus)]_vars

C12_UpdateStatusFrame ==
    [][\A r \in Slots :
        /\ Starts(r, "update") => UNCHANGED <<orders, stock, carts, catalog>>
        /\ (req[r].op = "update" /\ req[r].pc = "save" /\ Stepped(r))
           => LET oid == req[r].orderId
              IN /\ req'[r].pc = "done" /\ req'[r].resp = "OK"
                 /\ orders'[oid].orderStatus = req[r].arg
                 /\ req[r].arg = "delivered"
                      => orders'[oid].deliveredAt # NoDate
                 /\ req[r].arg # "delivered"
                      => orders'[oid].deliveredAt = orders[oid].deliveredAt
                 /\ orders' = [orders EXCEPT ![oid] =
                        [@ EXCEPT !.orderStatus = req[r].arg,
                                  !.deliveredAt = orders'[oid].deliveredAt]]
                 /\ UNCHANGED <<stock, carts, catalog>>]_vars

\* a 200 for the request to set a confirmed order to cancelled: the books
\* it holds are still off the stock and cancelledAt is not set
C12_Witness ==
    \E r \in Slots :
        /\ req[r].pc = "done" /\ req[r].op = "update" /\ req[r].resp = "OK"
        /\ req[r].arg = "cancelled"
        /\ OthersIdle(r)
        /\ orders[req[r].orderId].orderStatus = "cancelled"
        /\ orders[req[r].orderId].cancelledAt = NoDate
        /\ cancels[req[r].orderId] = 0
        /\ \E b \in Books :
               /\ QtyOf(orders[req[r].orderId].items, b) > 0
               /\ stock[b] < stock0[b]

C14_PaymentStatusAtCreation ==
    \A oid \in 1..Len(orders) :
        /\ orders[oid].paymentMethod \in
               {"credit_card", "debit_card", "paypal", "cash_on_delivery"}
        /\ orders[oid].paymentMethod = "cash_on_delivery"
               => orders[oid].paymentStatus = "pending"
        /\ orders[oid].paymentMethod # "cash_on_delivery"
               => orders[oid].paymentStatus = "completed"

\* a cash-on-delivery order and a card order side by side
C14_Witness ==
    \E o1 \in 1..Len(orders), o2 \in 1..Len(orders) :
        /\ orders[o1].paymentMethod = "cash_on_delivery"
        /\ orders[o1].paymentStatus = "pending"
        /\ orders[o2].paymentMethod = "credit_card"
        /\ orders[o2].paymentStatus = "completed"

\* the documents calculateOrderCosts has been applied to
Costed(r) ==
    /\ req[r].op = "costs"
    /\ req[r].pc \in {"costed", "recosted", "saved"}

\* C15: after calculateOrderCosts with the default threshold, shippingCost
\* is 0 exactly when subtotal >= 50 and the flat fee 199 otherwise; a
\* subtotal of exactly 50 ships free, one of 49.99 pays the fee.
C15_ShippingBoundary ==
    \A r \in Slots :
        Costed(r) =>
            LET d == req[r].doc
            IN /\ d.shippingCost \in {0, FlatShippingFee}
               /\ (d.shippingCost = 0) <=> (d.subtotal >= FreeShippingThreshold)
               /\ d.subtotal = FreeShippingThreshold => d.shippingCost = 0
               /\ d.subtotal = FreeShippingThreshold - CentUnit
                      => d.shippingCost = FlatShippingFee

\* a document whose subtotal is one cent below the threshold
C15_Witness ==
    \E r \in Slots :
        /\ Costed(r)
        /\ req[r].doc.subtotal = FreeShippingThreshold - CentUnit
        /\ req[r].doc.shippingCost = FlatShippingFee

\* the reference computation of the four costs of a list of items
RECURSIVE RefSubtotal(_)
RefSubtotal(items) ==
    IF items = <<>> THEN 0
    ELSE Head(items).quantity * Head(items).price + RefSubtotal(Tail(items))

\* x / den rounded to the nearest cent (x, den > 0 in thousandths)
RefRound(x, den) ==
    LET cents == x \div (den * CentUnit)
        rest == x % (den * CentUnit)
    IN IF 2 * rest >= den * CentUnit
       THEN (cents + 1) * CentUnit ELSE cents * CentUnit

RefCosts(items) ==
    LET sub == RefSubtotal(items)
        tx == RefRound(sub * TaxRateNum, TaxRateDen)
        sh == IF sub < FreeShippingThreshold THEN FlatShippingFee ELSE 0
    IN [subtotal |-> sub, tax |-> tx, shippingCost |-> sh,
        total |-> RefRound(sub + tx + sh, 1)]

Costs(d) ==
    [subtotal |-> d.subtotal, tax |-> d.tax, shippingCost |-> d.shippingCost,
     total |-> d.total]

\* C16: the four values calculateOrderCosts leaves on a document are those
\* of the reference computation (subtotal = sum of quantity x price, tax =
\* 8 % of it rounded to the cent, shipping from the threshold 50, total =
\* their sum rounded to the cent), for every list of items, the empty one
\* included; a second call leaves the same values.
C16_OrderCostsReference ==
    \A r \in Slots :
        (req[r].op = "costs" /\ req[r].pc \in {"costed", "recosted"}) =>
            /\ Costs(req[r].doc) = RefCosts(req[r].cart)
            /\ calculateOrderCosts(req[r].doc) = req[r].doc

\* a second call on a two-line document whose tax is rounded up and whose
\* subtotal reaches the threshold only with both lines
C16_Witness ==
    \E r \in Slots :
        /\ req[r].op = "costs" /\ req[r].pc = "recosted"
        /\ Len(req[r].doc.items) = 2
        /\ \A i \in 1..2 : req[r].doc.items[i].subtotal < FreeShippingThreshold
        /\ req[r].doc.shippingCost = 0
        /\ req[r].doc.tax * TaxRateDen > req[r].doc.subtotal * TaxRateNum

\* C17: no step changes the subtotal, tax, shippingCost or total of a
\* persisted order.  The saves of cancelOrder and updateOrderStatus meet an
\* order with a non-zero subtotal, on which the pre-save hook changes
\* nothing, also if its other costs were stale; the hook recomputes the
\* costs when the document has items and its subtotal is 0, and leaves a
\* document without items alone.
C17_CostsComputedOnce ==
    [][/\ \A oid \in 1..Len(orders) : Costs(orders'[oid]) = Costs(orders[oid])
       /\ \A r \in Slots :
            (req[r].op \in {"cancel", "update"} /\ req[r].pc = "save"
               /\ Stepped(r))
            => LET o == orders[req[r].orderId]
                   stale == [o EXCEPT !.tax = @ + CentUnit, !.total = 0]
                   blank == [o EXCEPT !.subtotal = 0, !.tax = 0,
                                      !.shippingCost = 0, !.total = 0]
               IN /\ o.subtotal # 0 /\ req[r].doc.subtotal # 0
                  /\ preSave(req[r].doc) = req[r].doc
                  /\ preSave(stale) = stale
                  /\ preSave(blank) = [blank EXCEPT !.subtotal = o.subtotal,
                                          !.tax = o.tax,
                                          !.shippingCost = o.shippingCost,
                                          !.total = o.total]
                  /\ preSave([blank EXCEPT !.items = <<>>])
                        = [blank EXCEPT !.items = <<>>]]_vars

\* an order saved by a cancelOrder and then by an updateOrderStatus to
\* delivered, with the costs it was created with
C17_Witness ==
    \E oid \in 1..Len(orders) :
        /\ cancels[oid] > 0
        /\ orders[oid].orderStatus = "delivered"
        /\ orders[oid].deliveredAt # NoDate
        /\ orders[oid].subtotal > 0
        /\ Costs(orders[oid]) = RefCosts(orders[oid].items)

\* C18: the lines of an order are those of the cart as createOrder read it:
\* same book and quantity, unit price = the price captured in the cart
\* line, subtotal = quantity x unit price; and no step (of cancelOrder, of
\* updateOrderStatus, a price change by updateBook, deleteBook) changes the
\* items of a persisted order.
C18_ItemsSnapshot ==
    [][/\ \A oid \in 1..Len(orders) : orders'[oid].items = orders[oid].items
       /\ \A r \in Slots :
            (req[r].op = "create" /\ req[r].pc = "save"
               /\ Len(orders') = Len(orders) + 1)
            => LET o == orders'[Len(orders')]
                   c == req[r].cart
               IN /\ Len(o.items) = Len(c)
                  /\ \A i \in 1..Len(c) :
                       /\ o.items[i].bookId = c[i].bookId
                       /\ o.items[i].quantity = c[i].quantity
                       /\ o.items[i].price = c[i].price
                       /\ o.items[i].subtotal = c[i].quantity * c[i].price]_vars

\* a cancelled order holds a line at a price the book no longer has
C18_Witness ==
    \E oid \in 1..Len(orders), i \in 1..2 :
        /\ i <= Len(orders[oid].items)
        /\ catalog[orders[oid].items[i].bookId].exists
        /\ orders[oid].items[i].price
              # catalog[orders[oid].items[i].bookId].price
        /\ orders[oid].items[i].subtotal
              = orders[oid].items[i].quantity * orders[oid].items[i].price
        /\ orders[oid].orderStatus = "cancelled"

\* C19: when a write of createOrder fails after the order is saved (at a
\* stock decrement or at the cart save), the request answers
\* INTERNAL_SERVER_ERROR and undoes nothing: that step leaves orders, stock
\* and carts as they are, so the order stays persisted and the cart keeps
\* its items, and the request takes no further step.
C19_PartialFailureStays ==
    [][\A r \in Slots :
        /\ (/\ req[r].op = "create" /\ req[r].pc \in {"dec", "clear"}
            /\ Stepped(r) /\ req'[r].writes = req[r].writes)
           => /\ req'[r].pc = "done"
              /\ req'[r].resp = "INTERNAL_SERVER_ERROR"
              /\ UNCHANGED <<orders, stock, carts>>
              /\ Exists(req[r].orderId)
              /\ orders[req[r].orderId].items # <<>>
              /\ carts[req[r].userId].items # <<>>
        /\ (/\ req[r].op = "create" /\ req[r].pc = "done"
            /\ req[r].resp = "INTERNAL_SERVER_ERROR" /\ Stepped(r))
           => /\ req'[r].pc = "idle"
              /\ UNCHANGED <<orders, stock, carts>>]_vars

\* the cart save has failed: the order is persisted, the stock of its book
\* is down by the quantity ordered, and the cart still holds the line
C19_Witness ==
    \E r \in Slots :
        /\ req[r].op = "create" /\ req[r].pc = "done"
        /\ req[r].resp = "INTERNAL_SERVER_ERROR"
        /\ req[r].writes = 1 + Len(req[r].cart)
        /\ Exists(req[r].orderId)
        /\ Len(orders) = 1
        /\ carts[req[r].userId].items = req[r].cart
        /\ \E b \in Books :
               /\ QtyOf(req[r].cart, b) > 0
               /\ stock[b] = stock0[b] - QtyOf(req[r].cart, b)

\* C20: a createOrder whose validation loop stops at a line whose book is
\* not in the catalog has answered BOOK_NOT_FOUND.
C20_DeletedBookNotFound ==
    \A r \in Slots :
        (/\ req[r].op = "create" /\ req[r].pc = "done"
         /\ req[r].writes = 0 /\ req[r].idx >= 1
         /\ ~catalog[req[r].cart[req[r].idx].bookId].exists)
        => req[r].resp = "BOOK_NOT_FOUND"

\* C22: no two persisted orders have the same orderNumber, also when
\* generateOrderNumber returns the same number to two requests.
C22_OrderNumbersUnique ==
    \A o1 \in 1..Len(orders), o2 \in 1..Len(orders) :
        o1 # o2 => orders[o1].orderNumber # orders[o2].orderNumber

\* the insert of a document whose orderNumber a persisted order holds has
\* been refused: the request has answered 500 after passing the stock check
\* and before any write
C22_Witness ==
    /\ Len(orders) = 1
    /\ \E r \in Slots :
          /\ req[r].op = "create" /\ req[r].pc = "done"
          /\ req[r].resp = "INTERNAL_SERVER_ERROR"
          /\ req[r].cart # <<>>
          /\ req[r].writes = 0 /\ req[r].idx = 0

\* C21: canBeRefunded answers true exactly when orderStatus is delivered,
\* paymentStatus is completed and Date.now() - createdAt is at most 30
\* days; the evaluation leaves the document and every collection as it is.
C21_RefundEligibility ==
    [][\A r \in Slots :
        (req[r].op = "refund" /\ Stepped(r)) =>
            /\ req'[r].resp \in {"true", "false"}
            /\ (req'[r].resp = "true") <=>
                 (/\ req[r].doc.orderStatus = "delivered"
                  /\ req[r].doc.paymentStatus = "completed"
                  /\ req'[r].at - req[r].doc.createdAt <= RefundWindow)
            /\ req'[r].doc = req[r].doc
            /\ UNCHANGED <<orders, stock, carts, catalog>>]_vars

\* a delivered, paid order exactly 30 days old is refundable
C21_Witness ==
    \E r \in Slots :
        /\ req[r].op = "refund" /\ req[r].pc = "evaluated"
        /\ req[r].resp = "true"
        /\ req[r].at - req[r].doc.createdAt = RefundWindow

\* C23: for page >= 1, limit >= 1 and total >= 0 the pagination metadata
\* has totalPages = the least k with k * limit >= total, hasNextPage
\* exactly when page * limit < total, which is exactly when currentPage <
\* totalPages, and hasPreviousPage exactly when page > 1.
C23_PaginationMetadata ==
    \A r \in Slots :
        (req[r].op = "page" /\ req[r].pc = "answered") =>
            LET m == req[r].meta
            IN /\ m.currentPage = req[r].page
               /\ m.totalPages * req[r].limit >= req[r].total
               /\ m.totalPages > 0
                    => (m.totalPages - 1) * req[r].limit < req[r].total
               /\ m.totalPages >= 0
               /\ m.hasNextPage <=> (req[r].page * req[r].limit < req[r].total)
               /\ m.hasNextPage <=> (m.currentPage < m.totalPages)
               /\ m.hasPreviousPage <=> (req[r].page > 1)

\* the last page of a total that does not fill it: no next page, a
\* previous one
C23_Witness ==
    \E r \in Slots :
        /\ req[r].op = "page" /\ req[r].pc = "answered"
        /\ req[r].total % req[r].limit # 0
        /\ req[r].page = req[r].meta.totalPages
        /\ req[r].page > 1
        /\ ~req[r].meta.hasNextPage /\ req[r].meta.hasPreviousPage

\* the quantity of book b in a list of cart lines
LineQty(items, b) ==
    IF HasLine(items, b)
    THEN (CHOOSE it \in {items[i] : i \in 1..Len(items)} : it.bookId = b).quantity
    ELSE 0

\* C24: addItem for a known book and a quantity >= 1 succeeds exactly when
\* the quantity already in the cart plus the requested one is at most the
\* stock; then the line holds their sum, which is at most the stock; else
\* it answers INSUFFICIENT_STOCK reporting stock minus the quantity in the
\* cart and leaves the cart as it was.
C24_AddItemStockCheck ==
    [][\A r \in Slots :
        (Stepped(r) /\ req'[r].op = "addItem"
           /\ req'[r].arg.quantity >= 1 /\ catalog[req'[r].arg.bookId].exists) =>
            LET u == req'[r].userId
                b == req'[r].arg.bookId
                q == req'[r].arg.quantity
                had == LineQty(carts[u].items, b)
            IN /\ req'[r].resp \in {"OK", "INSUFFICIENT_STOCK"}
               /\ (req'[r].resp = "OK") <=> (had + q <= stock[b])
               /\ req'[r].resp = "OK" =>
                    /\ LineQty(carts'[u].items, b) = had + q
                    /\ LineQty(carts'[u].items, b) <= stock[b]
               /\ req'[r].resp = "INSUFFICIENT_STOCK" =>
                    /\ req'[r].available = stock[b] - had
                    /\ carts' = carts]_vars

\* stock 5, 3 in the cart: adding 4 more has failed reporting 2 available
\* and the cart still holds 3
C24_Witness ==
    \E r \in Slots :
        /\ req[r].op = "addItem" /\ req[r].pc = "done"
        /\ req[r].resp = "INSUFFICIENT_STOCK"
        /\ req[r].arg = [bookId |-> "b1", quantity |-> 4]
        /\ stock["b1"] = 5
        /\ req[r].available = 2
        /\ LineQty(carts[req[r].userId].items, "b1") = 3
        /\ carts[req[r].userId].items = req[r].cart

RECURSIVE LinesTotal(_)
LinesTotal(items) ==
    IF items = <<>> THEN 0
    ELSE Head(items).quantity * Head(items).price + LinesTotal(Tail(items))

\* C25: after every cart operation the cart's total is the sum over its
\* lines of quantity x captured price, whatever the book costs by then.
C25_CartTotal ==
    \A u \in Users : carts[u].total = LinesTotal(carts[u].items)

\* a book priced 10 x2 and a book priced 15 x1 were in the cart (35); the
\* first line's quantity has been updated to 3: the total is 45
C25_Witness ==
    \E r \in Slots :
        /\ req[r].op = "updateItem" /\ req[r].pc = "done" /\ req[r].resp = "OK"
        /\ req[r].arg = [bookId |-> "b1", quantity |-> 3]
        /\ req[r].cart = <<[bookId |-> "b1", quantity |-> 2, price |-> 10000],
                           [bookId |-> "b2", quantity |-> 1, price |-> 15000]>>
        /\ carts[req[r].userId].items =
              <<[bookId |-> "b1", quantity |-> 3, price |-> 10000],
                [bookId |-> "b2", quantity |-> 1, price |-> 15000]>>
        /\ carts[req[r].userId].total = 45000

\* C26: a signed payment callback for an existing order whose amount is not
\* the order's total is answered AMOUNT_MISMATCH, whatever its status, and
\* leaves the orders, every book's stock and the carts as they were.
C26_AmountMismatchRejected ==
    [][\A r \in Slots :
        (/\ Stepped(r) /\ req'[r].op = "verify"
         /\ req'[r].arg.signed
         /\ Exists(req'[r].orderId)
         /\ req'[r].arg.amount # orders[req'[r].orderId].total) =>
            /\ req'[r].resp = "AMOUNT_MISMATCH"
            /\ UNCHANGED <<orders, stock, carts>>]_vars

\* a COMPLETE callback with a tampered amount has been refused while the
\* order awaits its payment and its owner's cart holds a line again
C26_Witness ==
    \E r \in Slots :
        /\ req[r].op = "verify" /\ req[r].pc = "done"
        /\ req[r].resp = "AMOUNT_MISMATCH"
        /\ req[r].arg.status = "COMPLETE"
        /\ Exists(req[r].orderId)
        /\ orders[req[r].orderId].paymentStatus = "pending"
        /\ orders[req[r].orderId] = req[r].doc
        /\ carts[orders[req[r].orderId].userId].items # <<>>

\* what the persisted orders hold of book b
Ordered(b) ==
    SumSeq([oid \in 1..Len(orders) |-> QtyOf(orders[oid].items, b)])

Held(b) ==
    SumSeq([oid \in 1..Len(orders) |->
              IF orders[oid].orderStatus # "cancelled"
              THEN QtyOf(orders[oid].items, b) ELSE 0])

\* C28: while no request is in flight, each book's stock plus the quantity
\* that the orders not cancelled hold of it is the book's initial stock.
C28_StockConservation ==
    Quiet => \A b \in Books : stock[b] + Held(b) = stock0[b]

\* the quantity of book b in the lines of items from line idx on
QtyFrom(items, idx, b) ==
    SumSeq([i \in 1..Len(items) |->
              IF i >= idx /\ items[i].bookId = b THEN items[i].quantity ELSE 0])

\* the quantity of book b that createOrder takes off the stock for order
\* oid: that of its lines
Debited(oid, b) == QtyOf(orders[oid].items, b)

\* the quantity of book b given back to the stock for order oid: its lines
\* once per cancelOrder that saved it, less those a restore loop has yet
\* to reach
Credited(oid, b) ==
    cancels[oid] * QtyOf(orders[oid].items, b)
      - SumSeq([r \in 1..NumSlots |->
                  IF /\ req[r].op = "cancel" /\ req[r].pc = "restore"
                     /\ req[r].orderId = oid
                  THEN QtyFrom(req[r].doc.items, req[r].idx, b) ELSE 0])

\* C29: for every order and every book, the quantity given back to the
\* stock for the order never exceeds the quantity taken off at its
\* creation.
C29_CreditWithinDebit ==
    \A oid \in 1..Len(orders), b \in Books : Credited(oid, b) <= Debited(oid, b)

\* C30: two createOrder requests of one user in flight together that read
\* the same non-empty cart do not both persist an order.
C30_OneOrderPerCart ==
    \A r1 \in Slots, r2 \in Slots :
        (/\ r1 # r2
         /\ req[r1].op = "create" /\ req[r2].op = "create"
         /\ req[r1].userId = req[r2].userId
         /\ req[r1].cart # <<>> /\ req[r1].cart = req[r2].cart) =>
            ~(req[r1].orderId # 0 /\ req[r2].orderId # 0)

\* order oid is cancelled and, with no request in flight, some of the
\* stock of one of its books has not come back
StockMissing(oid) ==
    /\ Exists(oid)
    /\ orders[oid].orderStatus = "cancelled"
    /\ \A r \in Slots : req[r].pc = "idle"
    /\ \E b \in Books :
          /\ QtyOf(orders[oid].items, b) > 0
          /\ stock[b] + Held(b) < stock0[b]

\* C31: when a cancelOrder has failed after saving the order as cancelled
\* and before restoring every line, a later cancelOrder of the owner for
\* that order is not refused: it goes on to restore the stock.
C31_RetryRestores ==
    [][\A r \in Slots :
        (/\ Stepped(r) /\ req'[r].op = "cancel"
         /\ StockMissing(req'[r].orderId)
         /\ orders[req'[r].orderId].userId = req'[r].userId) =>
            req'[r].resp # "INVALID_ORDER_STATUS"]_vars

\* C32: order.save() of createOrder fails whenever the payment method is
\* outside the schema's enum or the orderNumber is held by a persisted
\* order; when it fails, for these or any other reason, the request
\* answers 500 having written nothing: no order is added, no stock
\* changes and the cart keeps its lines.
C32_SaveFailureWritesNothing ==
    [][\A r \in Slots :
        (req[r].op = "create" /\ req[r].pc = "save" /\ Stepped(r)) =>
            /\ (\/ req[r].doc.paymentMethod \notin
                      {"credit_card", "debit_card", "paypal", "cash_on_delivery"}
                \/ \E oid \in 1..Len(orders) :
                      orders[oid].orderNumber = req[r].doc.orderNumber)
                 => req'[r].resp = "INTERNAL_SERVER_ERROR"
            /\ req'[r].resp = "INTERNAL_SERVER_ERROR" =>
                 /\ req'[r].pc = "done"
                 /\ req'[r].writes = 0 /\ req'[r].orderId = 0
                 /\ UNCHANGED <<orders, stock, carts>>
                 /\ carts[req[r].userId].items # <<>>]_vars

\* an order with a payment method outside the enum has been refused at
\* its save: no order, the stock untouched, the cart as it was
C32_Witness ==
    \E r \in Slots :
        /\ req[r].op = "create" /\ req[r].pc = "done"
        /\ req[r].resp = "INTERNAL_SERVER_ERROR"
        /\ req[r].arg = "esewa"
        /\ req[r].idx = 0 /\ req[r].writes = 0
        /\ orders = <<>> /\ stock = stock0
        /\ carts[req[r].userId].items = req[r].cart

\* C33: a persisted order's orderStatus, cancelledAt and deliveredAt
\* change only in a step of a request whose caller owns the order.
C33_OwnerOnly ==
    [][\A oid \in 1..Len(orders) :
        (\/ orders'[oid].orderStatus # orders[oid].orderStatus
         \/ orders'[oid].cancelledAt # orders[oid].cancelledAt
         \/ orders'[oid].deliveredAt # orders[oid].deliveredAt) =>
            \E r \in Slots :
                /\ Stepped(r)
                /\ req[r].orderId = oid
                /\ req[r].userId = orders[oid].userId]_vars

\* C34: a persisted order that is cancelled has cancelledAt set and one
\* that is delivered has deliveredAt set.
C34_TerminalStamped ==
    \A oid \in 1..Len(orders) :
        /\ orders[oid].orderStatus = "cancelled" => orders[oid].cancelledAt # NoDate
        /\ orders[oid].orderStatus = "delivered" => orders[oid].deliveredAt # NoDate

\* C35: no step changes a persisted order's paymentStatus; an order paid
\* cash on delivery is pending after every step, whatever its orderStatus,
\* and is not refundable at any age; any other order is completed.
C35_PaymentStatusFixed ==
    [][\A oid \in 1..Len(orders') :
        /\ oid <= Len(orders)
             => orders'[oid].paymentStatus = orders[oid].paymentStatus
        /\ orders'[oid].paymentMethod = "cash_on_delivery"
             => /\ orders'[oid].paymentStatus = "pending"
                /\ \A age \in RefundAges :
                     ~canBeRefunded(orders'[oid], orders'[oid].createdAt + age)
        /\ orders'[oid].paymentMethod # "cash_on_delivery"
             => orders'[oid].paymentStatus = "completed"]_vars

\* an order paid cash on delivery has been set to delivered: deliveredAt
\* is stamped and the payment is still pending
C35_Witness ==
    \E r \in Slots :
        /\ req[r].op = "update" /\ req[r].pc = "done" /\ req[r].resp = "OK"
        /\ req[r].arg = "delivered"
        /\ orders[req[r].orderId].paymentMethod = "cash_on_delivery"
        /\ orders[req[r].orderId].orderStatus = "delivered"
        /\ orders[req[r].orderId].deliveredAt # NoDate
        /\ orders[req[r].orderId].paymentStatus = "pending"
====
